---- MODULE Spec2Model ----
(***************************************************************************)
(* Batch image splitter (openstar-Image-cropping).                         *)
(*                                                                         *)
(* image_splitter.rs: SplitConfig, ImageSplitter::split_image,             *)
(* ImageSplitter::batch_process and process_single_image.                  *)
(* app.rs: BatchImageSplitterApp, the UI state that owns the shared        *)
(* configuration, the per-image overrides and the image list, and that     *)
(* spawns the batch thread.                                                *)
(*                                                                         *)
(* Line positions are f32 fractions in [0,1]; they are modelled in fixed   *)
(* point, as the integers 0..Den standing for 0/Den .. Den/Den.  Image     *)
(* indices are 0-based as in the source; sequences are 1-based, so the     *)
(* image of index idx is paths[idx + 1].                                   *)
(***************************************************************************)
EXTENDS Integers, Sequences, FiniteSets, TLC

\* ------------------------------------------------------------------ bounds
\* Most images in one image list.
MaxImages == 2
\* Most split lines on one axis of one configuration.
MaxLines == 2
\* Width and height, in pixels, of the largest image.
MaxDim == 2
\* Distinct source files the user can pick.
NumPaths == 3
\* Largest value given to the rows and cols fields (10 in the program).
MaxRows == 3
\* Number of user events followed.
MaxEvents == 2

\* Fixed-point resolution of a line position: p stands for p / Den.  The
\* least resolution at which every i / n of reset_to_default is exact for
\* the values of rows and cols followed.
RECURSIVE Factorial(_)
Factorial(n) == IF n <= 1 THEN 1 ELSE n * Factorial(n - 1)

Den ==
    CHOOSE d \in 1..Factorial(MaxRows) :
        /\ \A n \in 1..MaxRows : d % n = 0
        /\ \A e \in 1..(d - 1) : \E n \in 1..MaxRows : e % n # 0

Pos == 0..Den
Paths == 1..NumPaths
\* Option<T>: None, or Some(x).
None == <<>>
Some(x) == <<x>>

SeqsUpTo(S, n) == UNION {[1..k -> S] : k \in 0..n}

Min(a, b) == IF a < b THEN a ELSE b
Max(a, b) == IF a > b THEN a ELSE b

\* ------------------------------------------------------------- SplitConfig
\* The range taken from 0: (0..n - 1).
EvenLines_from_zero(n) == [i \in 1..(n - 1) |-> ((i - 1) * Den) \div n]

\* reset_to_default: (1..n).map(|i| i as f32 / n as f32), in fixed point.
EvenLines(n) == [i \in 1..(n - 1) |-> (i * Den) \div n]

\* Only the horizontal lines are recomputed.
reset_to_default_rows_only(c) ==
    [c EXCEPT !.h_lines = EvenLines(c.rows)]

reset_to_default(c) ==
    [c EXCEPT !.h_lines = EvenLines(c.rows), !.v_lines = EvenLines(c.cols)]

SplitConfig_new(rows, cols) ==
    reset_to_default([rows |-> rows, cols |-> cols,
                      h_lines |-> <<>>, v_lines |-> <<>>])

\* usize::saturating_sub(1)
SatPred(n) == IF n = 0 THEN 0 ELSE n - 1

is_valid(c) ==
    /\ Len(c.h_lines) = SatPred(c.rows)
    /\ Len(c.v_lines) = SatPred(c.cols)

\* --------------------------------------------------------------- the image
\* A decoded image is its size; the file of path p decodes to ImageOf(p).
ImageOf(p) == [width |-> MaxDim, height |-> MaxDim]

\* Path::file_stem: the files picked have stems that differ, so the stem of
\* path p is written p; an image list names one stem twice when it names
\* one file twice.
file_stem(p) == p

\* OsStr::to_str: the stem of path 1 is UTF-8, "a"; the stems of the other
\* paths hold bytes that are not UTF-8, as names in a legacy encoding do.
to_str(stem) == IF stem = 1 THEN Some("a") ELSE None

\* path.file_stem().and_then(|s| s.to_str()).unwrap_or("image")
base_name(p) ==
    IF to_str(file_stem(p)) # None THEN to_str(file_stem(p))[1] ELSE "image"

\* ------------------------------------------------------------- split_image
\* The product rounded to the nearest pixel, a half upwards.
Trunc_rounded(dim, p) == (2 * dim * p + Den) \div (2 * Den)

\* The product taken to the pixel above it.
Trunc_above(dim, p) == (dim * p) \div Den + 1

\* (dim as f32 * p) as u32: the cast truncates.
Trunc(dim, p) == (dim * p) \div Den

Positions(dim, lines) ==
    <<0>> \o [k \in 1..Len(lines) |-> Trunc(dim, lines[k])] \o <<dim>>

h_positions(img, c) == Positions(img.height, c.h_lines)
v_positions(img, c) == Positions(img.width, c.v_lines)

\* The rows field trusted where the lines allow as many rows.
actual_rows_from_field(c) == Min(c.rows, Len(c.h_lines) + 1)

actual_rows(c) == Len(c.h_lines) + 1
actual_cols(c) == Len(c.v_lines) + 1

\* A subtraction that gives 0 taken for an overflow too.
Underflows_on_equal(img, c) ==
    \/ \E r \in 1..(Len(c.h_lines) + 1) :
          h_positions(img, c)[r + 1] <= h_positions(img, c)[r]
    \/ \E k \in 1..(Len(c.v_lines) + 1) :
          v_positions(img, c)[k + 1] <= v_positions(img, c)[k]

\* Some right - left or lower - upper of the loop has right < left: the u32
\* subtraction overflows.
Underflows(img, c) ==
    \/ \E r \in 1..actual_rows(c) :
          h_positions(img, c)[r + 1] < h_positions(img, c)[r]
    \/ \E k \in 1..actual_cols(c) :
          v_positions(img, c)[k + 1] < v_positions(img, c)[k]

\* The difference taken between inclusive bounds.
WrappingSub_inclusive(a, b) == IF a >= b THEN a - b + 1 ELSE 2147483647

\* a - b in u32 without overflow checks.  The wrapped difference
\* 2^32 - (b - a) is only ever compared with a length of the image, which
\* it exceeds; 2^31 - 1 stands for it.
WrappingSub(a, b) == IF a >= b THEN a - b ELSE 2147483647

\* image::imageops::crop_imm clamps the rectangle to the image (crop_dimms).
crop_imm(img, x, y, width, height) ==
    LET cx == Min(x, img.width)
        cy == Min(y, img.height)
    IN  [x |-> cx, y |-> cy,
         w |-> Min(width, img.width - cx),
         h |-> Min(height, img.height - cy)]

\* The grid of a successful split_image: result[row][col], 1-based here.
Grid(img, c) ==
    [row \in 1..actual_rows(c) |->
        [col \in 1..actual_cols(c) |->
            LET upper == h_positions(img, c)[row]
                lower == h_positions(img, c)[row + 1]
                left  == v_positions(img, c)[col]
                right == v_positions(img, c)[col + 1]
            IN  crop_imm(img, left, upper,
                         WrappingSub(right, left), WrappingSub(lower, upper))]]

\* split_image: with overflow checks (a debug build) an overflowing
\* subtraction panics; without them (a release build) it wraps.
split_image(img, c, checks) ==
    IF checks /\ Underflows(img, c)
    THEN [panicked |-> TRUE, parts |-> <<>>]
    ELSE [panicked |-> FALSE, parts |-> Grid(img, c)]

\* ------------------------------------------------------------------- state
VARIABLES
    \* BatchImageSplitterApp
    image_paths, current_index, current_texture,
    config, saved_config, config_overrides,
    selected_lines, dragging_line,
    \* thumbnails: for an index, the path its texture was made from
    thumbnails,
    \* the user events handled so far
    events,
    \* the batch thread: the values moved into it, and batch_process
    b_pc, paths, global_config, overrides,
    processed, failed, result,
    \* the par_iter closure of each image: its position and its locals
    w_pc, w_config, w_cell, w_result,
    \* what the run leaves outside the program: the progress callback's
    \* invocations in order, and the files written to output_dir
    calls, out_files,
    \* the environment: the build profile, and create_dir_all's outcome
    overflow_checks, dir_status,
    \* update_status, and the update-check threads spawned and not ended
    update_status, checks_in_flight,
    \* one call of split_image on its own: its arguments and what it returns
    s_img, s_config, s_result,
    \* where the configuration of that call comes from: "given" as it is,
    \* "literal" before and "made" after SplitConfig::new has filled it
    s_pc

app_vars == <<image_paths, current_index, current_texture, config,
              saved_config, config_overrides, selected_lines, dragging_line,
              thumbnails, events>>
snapshot_vars == <<paths, global_config, overrides>>
worker_vars == <<w_pc, w_config, w_cell, w_result>>
batch_vars == <<b_pc, paths, global_config, overrides, processed, failed,
                result, w_pc, w_config, w_cell, w_result, calls, out_files,
                dir_status>>
split_vars == <<s_img, s_config, s_result, s_pc>>
update_vars == <<update_status, checks_in_flight>>
vars == <<app_vars, batch_vars, overflow_checks, split_vars, update_vars>>

total == Len(paths)
Images == 0..(total - 1)

\* ----------------------------------------------------------- batch_process
\* A lookup under the 1-based position of the image instead of its index.
resolve_shifted(idx, ovr, global) ==
    IF (idx + 1) \in DOMAIN ovr THEN ovr[idx + 1] ELSE global

\* overrides.get(&idx).unwrap_or(global_config)
resolve(idx, ovr, global) ==
    IF idx \in DOMAIN ovr THEN ovr[idx] ELSE global

\* The shared configuration as it is, saved or not.
GlobalForBatch_live == config

\* saved_config.clone().unwrap_or_else(|| config.clone())
GlobalForBatch == IF saved_config # None THEN saved_config[1] ELSE config

\* The closure reading the application's fields instead of the clones moved
\* into the thread.
closure_config_live(idx) == resolve(idx, config_overrides, GlobalForBatch)

\* let config = overrides.get(&idx).unwrap_or(global_config), over the
\* clones the thread owns.
closure_config(idx) == resolve(idx, overrides, global_config)

\* The error of create_dir_all dropped instead of returned.
AfterCreateDir_ignored(created) == "running"

\* fs::create_dir_all(output_dir)?
AfterCreateDir(created) == IF created THEN "running" ELSE "error"

create_dir_all ==
    /\ b_pc = "called"
    /\ \E created \in BOOLEAN :
          /\ dir_status' = IF created THEN "created" ELSE "failed"
          /\ b_pc' = AfterCreateDir(created)
    /\ UNCHANGED <<app_vars, snapshot_vars, processed, failed, result,
                   worker_vars, calls, out_files, overflow_checks, split_vars, update_vars>>

\* The closure up to the cell loop: the configuration is resolved, the
\* image is opened and split.
open_image(idx) ==
    /\ b_pc = "running"
    /\ w_pc[idx] = "start"
    /\ LET c == closure_config(idx) IN
       /\ w_config' = [w_config EXCEPT ![idx] = Some(c)]
       /\ \E decoded \in BOOLEAN :
             IF ~decoded
             THEN /\ w_result' = [w_result EXCEPT ![idx] = "Err"]
                  /\ w_pc' = [w_pc EXCEPT ![idx] = "count"]
             ELSE /\ w_result' = w_result
                  /\ w_pc' = [w_pc EXCEPT ![idx] =
                        IF split_image(ImageOf(paths[idx + 1]), c,
                                       overflow_checks).panicked
                        THEN "panicked" ELSE "save"]
    /\ UNCHANGED <<app_vars, b_pc, snapshot_vars, processed, failed, result,
                   w_cell, calls, out_files, overflow_checks, split_vars, update_vars, dir_status>>

\* The name built with the column first and the row second.
OutputFile_transposed(idx, cell, complete) ==
    LET row_idx == cell \div (Len(w_config[idx][1].v_lines) + 1)
        col_idx == cell % (Len(w_config[idx][1].v_lines) + 1)
    IN  [stem |-> base_name(paths[idx + 1]),
         row |-> col_idx + 1,
         col |-> row_idx + 1,
         part |-> Grid(ImageOf(paths[idx + 1]),
                       w_config[idx][1])[row_idx + 1][col_idx + 1],
         by |-> idx, complete |-> complete]

\* The file of one cell: its name, format!("{}_{}_{}.jpg", base_name,
\* row_idx + 1, col_idx + 1), the cell saved in it, and the image whose
\* closure wrote it.
OutputFile(idx, cell, complete) ==
    LET row_idx == cell \div actual_cols(w_config[idx][1])
        col_idx == cell % actual_cols(w_config[idx][1])
    IN  [stem |-> base_name(paths[idx + 1]),
         row |-> row_idx + 1,
         col |-> col_idx + 1,
         part |-> Grid(ImageOf(paths[idx + 1]),
                       w_config[idx][1])[row_idx + 1][col_idx + 1],
         by |-> idx, complete |-> complete]

NumCells(c) == actual_rows(c) * actual_cols(c)

\* The cell loop with a failed save removing what the image has written.
save_with_format_cleanup(idx) ==
    /\ b_pc = "running"
    /\ w_pc[idx] = "save"
    /\ \E outcome \in {"saved", "failed"} :
          IF outcome = "saved"
          THEN /\ out_files' = out_files \cup {OutputFile(idx, w_cell[idx], TRUE)}
               /\ w_cell' = [w_cell EXCEPT ![idx] = @ + 1]
               /\ IF w_cell[idx] + 1 = NumCells(w_config[idx][1])
                  THEN /\ w_result' = [w_result EXCEPT ![idx] = "Ok"]
                       /\ w_pc' = [w_pc EXCEPT ![idx] = "count"]
                  ELSE UNCHANGED <<w_result, w_pc>>
          ELSE /\ out_files' = {f \in out_files : f.by # idx}
               /\ w_result' = [w_result EXCEPT ![idx] = "Err"]
               /\ w_pc' = [w_pc EXCEPT ![idx] = "count"]
               /\ w_cell' = w_cell
    /\ UNCHANGED <<app_vars, b_pc, snapshot_vars, processed, failed, result,
                   w_config, calls, overflow_checks, split_vars, update_vars, dir_status>>

\* One save_with_format of the cell loop, cells in row-major order.  A save
\* that fails ends the loop with Err, and may leave the file it created.
save_with_format(idx) ==
    /\ b_pc = "running"
    /\ w_pc[idx] = "save"
    /\ \E outcome \in {"saved", "failed", "failed_file_left"} :
          IF outcome = "saved"
          THEN /\ out_files' = out_files \cup {OutputFile(idx, w_cell[idx], TRUE)}
               /\ w_cell' = [w_cell EXCEPT ![idx] = @ + 1]
               /\ IF w_cell[idx] + 1 = NumCells(w_config[idx][1])
                  THEN /\ w_result' = [w_result EXCEPT ![idx] = "Ok"]
                       /\ w_pc' = [w_pc EXCEPT ![idx] = "count"]
                  ELSE UNCHANGED <<w_result, w_pc>>
          ELSE /\ out_files' = IF outcome = "failed" THEN out_files
                               ELSE out_files \cup
                                    {OutputFile(idx, w_cell[idx], FALSE)}
               /\ w_result' = [w_result EXCEPT ![idx] = "Err"]
               /\ w_pc' = [w_pc EXCEPT ![idx] = "count"]
               /\ w_cell' = w_cell
    /\ UNCHANGED <<app_vars, b_pc, snapshot_vars, processed, failed, result,
                   w_config, calls, overflow_checks, split_vars, update_vars, dir_status>>

\* processed incremented whatever the result.
ProcessedDelta_always(res) == 1

\* What one image adds to each counter.
ProcessedDelta(res) == IF res = "Ok" THEN 1 ELSE 0
FailedDelta(res) == IF res = "Ok" THEN 0 ELSE 1

\* processed.fetch_add(1) or failed.fetch_add(1): one atomic step.
fetch_add(idx) ==
    /\ b_pc = "running"
    /\ w_pc[idx] = "count"
    /\ processed' = processed + ProcessedDelta(w_result[idx])
    /\ failed' = failed + FailedDelta(w_result[idx])
    /\ w_pc' = [w_pc EXCEPT ![idx] = "report"]
    /\ UNCHANGED <<app_vars, b_pc, snapshot_vars, result, w_config, w_cell,
                   w_result, calls, out_files, overflow_checks, split_vars, update_vars, dir_status>>

\* The index passed as it is, 0-based.
ProgressArgs_index(idx) == <<idx, total>>

\* The arguments of progress_callback(idx + 1, total).
ProgressArgs(idx) == <<idx + 1, total>>

progress_callback(idx) ==
    /\ b_pc = "running"
    /\ w_pc[idx] = "report"
    /\ calls' = Append(calls, ProgressArgs(idx))
    /\ w_pc' = [w_pc EXCEPT ![idx] = "done"]
    /\ UNCHANGED <<app_vars, b_pc, snapshot_vars, processed, failed, result,
                   w_config, w_cell, w_result, out_files, overflow_checks, split_vars, update_vars,
                   dir_status>>

\* for_each has joined every closure: the counters are loaded.
batch_return ==
    /\ b_pc = "running"
    /\ \A i \in Images : w_pc[i] = "done"
    /\ result' = Some(<<processed, failed>>)
    /\ b_pc' = "returned"
    /\ UNCHANGED <<app_vars, snapshot_vars, processed, failed, worker_vars,
                   calls, out_files, overflow_checks, split_vars, update_vars, dir_status>>

\* A closure panicked: for_each resumes the panic in its caller once the
\* closures that run have ended.  Images of the panicking job that were
\* not started are never run.
batch_unwind ==
    /\ b_pc = "running"
    /\ \E i \in Images : w_pc[i] = "panicked"
    /\ \A i \in Images : w_pc[i] \in {"start", "done", "panicked"}
    /\ b_pc' = "panicked"
    /\ UNCHANGED <<app_vars, snapshot_vars, processed, failed, result,
                   worker_vars, calls, out_files, overflow_checks, split_vars, update_vars, dir_status>>

Worker(idx) ==
    \/ open_image(idx)
    \/ save_with_format(idx)
    \/ fetch_add(idx)
    \/ progress_callback(idx)

BatchStep ==
    \/ create_dir_all
    \/ \E idx \in Images : Worker(idx)
    \/ batch_return
    \/ batch_unwind

\* --------------------------------------------------- BatchImageSplitterApp
Horizontal == "Horizontal"
Vertical == "Vertical"
LineType == {Horizontal, Vertical}

\* The sequence left in the order of insertion.
sort_by_none(s) == s

\* Vec::sort_by(partial_cmp): ascending; an insertion sort.
RECURSIVE sort_by(_)
sort_by(s) ==
    IF Len(s) <= 1 THEN s
    ELSE LET rest == sort_by(Tail(s))
             below == SelectSeq(rest, LAMBDA x : x <= Head(s))
             above == SelectSeq(rest, LAMBDA x : x > Head(s))
         IN  below \o <<Head(s)>> \o above

\* The index taken as that of the pushed element, the last.
position_of_push(lines, pos) == Len(lines) - 1

\* iter().position(|&p| p == pos): the 0-based index of the first match.
position(lines, pos) ==
    (CHOOSE k \in 1..Len(lines) :
        lines[k] = pos /\ \A j \in 1..(k - 1) : lines[j] # pos) - 1

\* Vec::remove(idx), idx 0-based.
remove(lines, idx) ==
    [k \in 1..(Len(lines) - 1) |-> IF k <= idx THEN lines[k] ELSE lines[k + 1]]

\* The lowest index taken first.
SetMin(S) == CHOOSE m \in S : \A x \in S : m <= x

SetMax(S) == CHOOSE m \in S : \A x \in S : x <= m

\* for idx in to_delete (sorted highest first) { if idx < len { remove } }
RECURSIVE remove_lines(_, _)
remove_lines(lines, to_delete) ==
    IF to_delete = {} THEN lines
    ELSE LET idx == SetMax(to_delete)
         IN  remove_lines(IF idx < Len(lines) THEN remove(lines, idx) ELSE lines,
                          to_delete \ {idx})

\* The value stored as it is computed.
Clamp_none(p) == p

\* (*line + delta).max(0.0).min(1.0)
Clamp(p) == Min(Max(p, 0), Den)

\* The arrow-key step: 0.001, or 0.005 with shift; the unit of a position
\* is one step.
Step == 1
ShiftStep == 5

\* The lines of one kind of a configuration, and the configuration with
\* them replaced and its count re-derived.
LinesOf(c, t) == IF t = Horizontal THEN c.h_lines ELSE c.v_lines

\* The lines replaced and the count left as it was.
WithLines_stale_count(c, t, lines) ==
    IF t = Horizontal THEN [c EXCEPT !.h_lines = lines]
    ELSE [c EXCEPT !.v_lines = lines]

WithLines(c, t, lines) ==
    IF t = Horizontal
    THEN [c EXCEPT !.h_lines = lines, !.rows = Len(lines) + 1]
    ELSE [c EXCEPT !.v_lines = lines, !.cols = Len(lines) + 1]

\* Lines replaced in place: the count is left as it is.
WithLinesInPlace(c, t, lines) ==
    IF t = Horizontal THEN [c EXCEPT !.h_lines = lines]
    ELSE [c EXCEPT !.v_lines = lines]

HasOverride(idx) == idx \in DOMAIN config_overrides

\* config_overrides.get(&current_index) or the shared configuration: what
\* the canvas draws and what add, delete and nudge edit.
current_config == resolve(current_index, config_overrides, config)

\* The edit writes the shared configuration whatever it was made on.
StoreEdited_shared(c) ==
    /\ config' = c
    /\ config_overrides' = config_overrides

\* The edited configuration stored where it came from.
StoreEdited(c) ==
    IF HasOverride(current_index)
    THEN /\ config_overrides' = [config_overrides EXCEPT ![current_index] = c]
         /\ config' = config
    ELSE /\ config' = c
         /\ config_overrides' = config_overrides

\* A user event is handled; the model follows MaxEvents of them.
Event ==
    /\ events < MaxEvents
    /\ events' = events + 1

\* Mouse events reach a widget only while no line is being dragged.
MouseFree == dragging_line = None

\* The central panel (rulers, canvas) exists only with a texture.
CanvasShown == current_texture # None

\* load_image: the texture is replaced when the file decodes.
load_image(path) ==
    \E decoded \in BOOLEAN :
        current_texture' = IF decoded THEN Some(path) ELSE current_texture

\* The gallery, drawn at the end of a frame that shows an image:
\* thumbnails.entry(idx).or_insert_with(|| texture of open_image(path))
\* for every (idx, path) of the list after the frame's handlers.
draw_thumbnails ==
    thumbnails' =
       IF current_texture' = None THEN thumbnails
       ELSE [idx \in DOMAIN thumbnails \cup (0..(Len(image_paths') - 1)) |->
               IF idx \in DOMAIN thumbnails THEN thumbnails[idx]
               ELSE image_paths'[idx + 1]]

add_line(line_type, pos) ==
    /\ Event
    /\ MouseFree
    /\ CanvasShown
    /\ Len(LinesOf(current_config, line_type)) < MaxLines
    /\ LET lines == sort_by(Append(LinesOf(current_config, line_type), pos))
       IN  /\ StoreEdited(WithLines(current_config, line_type, lines))
           /\ selected_lines' = {<<line_type, position(lines, pos)>>}
    /\ UNCHANGED <<image_paths, current_index, current_texture, saved_config,
                   dragging_line, batch_vars, overflow_checks, split_vars, update_vars>>
    /\ draw_thumbnails

\* Files picked in the dialog (button or Ctrl+O), or found in a folder.
pick_files(picked) ==
    /\ Event
    /\ MouseFree
    /\ Len(image_paths) + Len(picked) <= MaxImages
    /\ image_paths' = image_paths \o picked
    /\ IF current_texture = None /\ image_paths' # <<>>
       THEN load_image(image_paths'[1])
       ELSE current_texture' = current_texture
    /\ UNCHANGED <<current_index, config, saved_config, config_overrides,
                   selected_lines, dragging_line, batch_vars, overflow_checks, split_vars, update_vars>>
    /\ draw_thumbnails

show_previous_image ==
    /\ Event
    /\ IF current_index > 0
       THEN /\ current_index' = current_index - 1
            /\ IF current_index' < Len(image_paths)
               THEN load_image(image_paths[current_index' + 1])
               ELSE current_texture' = current_texture
       ELSE UNCHANGED <<current_index, current_texture>>
    /\ UNCHANGED <<image_paths, config, saved_config, config_overrides,
                   selected_lines, dragging_line, batch_vars, overflow_checks, split_vars, update_vars>>
    /\ draw_thumbnails

\* The index advanced without the test against the length of the list.
show_next_image_unchecked ==
    /\ Event
    /\ current_index < MaxImages
    /\ current_index' = current_index + 1
    /\ IF current_index' < Len(image_paths)
       THEN load_image(image_paths[current_index' + 1])
       ELSE current_texture' = current_texture
    /\ UNCHANGED <<image_paths, config, saved_config, config_overrides,
                   selected_lines, dragging_line, batch_vars, overflow_checks, split_vars, update_vars>>
    /\ draw_thumbnails

show_next_image ==
    /\ Event
    /\ IF current_index + 1 < Len(image_paths)
       THEN /\ current_index' = current_index + 1
            /\ load_image(image_paths[current_index' + 1])
       ELSE UNCHANGED <<current_index, current_texture>>
    /\ UNCHANGED <<image_paths, config, saved_config, config_overrides,
                   selected_lines, dragging_line, batch_vars, overflow_checks, split_vars, update_vars>>
    /\ draw_thumbnails

\* A click on an entry of the image list or on a thumbnail.
select_image(idx) ==
    /\ Event
    /\ MouseFree
    /\ idx < Len(image_paths)
    /\ current_index' = idx
    /\ load_image(image_paths[idx + 1])
    /\ UNCHANGED <<image_paths, config, saved_config, config_overrides,
                   selected_lines, dragging_line, batch_vars, overflow_checks, split_vars, update_vars>>
    /\ draw_thumbnails

\* The clear button dropping the overrides with the images.
clear_images_and_overrides ==
    /\ Event
    /\ MouseFree
    /\ image_paths' = <<>>
    /\ current_index' = 0
    /\ current_texture' = None
    /\ config_overrides' = <<>>
    /\ UNCHANGED <<config, saved_config, selected_lines, dragging_line,
                   batch_vars, overflow_checks, split_vars, update_vars>>
    /\ draw_thumbnails

clear_images ==
    /\ Event
    /\ MouseFree
    /\ image_paths' = <<>>
    /\ current_index' = 0
    /\ current_texture' = None
    /\ UNCHANGED <<config, saved_config, config_overrides, selected_lines,
                   dragging_line, batch_vars, overflow_checks, split_vars, update_vars>>
    /\ draw_thumbnails

save_config ==
    /\ Event
    /\ saved_config' = Some(config)
    /\ UNCHANGED <<image_paths, current_index, current_texture, config,
                   config_overrides, selected_lines, dragging_line,
                   batch_vars, overflow_checks, split_vars, update_vars>>
    /\ draw_thumbnails

\* The rows DragValue changed: config.rows = rows; reset_to_default().
set_rows(rows) ==
    /\ Event
    /\ MouseFree
    /\ rows # config.rows
    /\ config' = reset_to_default([config EXCEPT !.rows = rows])
    /\ UNCHANGED <<image_paths, current_index, current_texture, saved_config,
                   config_overrides, selected_lines, dragging_line,
                   batch_vars, overflow_checks, split_vars, update_vars>>
    /\ draw_thumbnails

set_cols(cols) ==
    /\ Event
    /\ MouseFree
    /\ cols # config.cols
    /\ config' = reset_to_default([config EXCEPT !.cols = cols])
    /\ UNCHANGED <<image_paths, current_index, current_texture, saved_config,
                   config_overrides, selected_lines, dragging_line,
                   batch_vars, overflow_checks, split_vars, update_vars>>
    /\ draw_thumbnails

\* The indices selected among the lines of one kind.
SelectedOf(t) == {l[2] : l \in {s \in selected_lines : s[1] = t}}

\* Delete pressed with a selection.
delete_selected ==
    /\ Event
    /\ selected_lines # {}
    /\ LET h == remove_lines(current_config.h_lines, SelectedOf(Horizontal))
           v == remove_lines(current_config.v_lines, SelectedOf(Vertical))
       IN  StoreEdited(WithLines(WithLines(current_config, Horizontal, h),
                                 Vertical, v))
    /\ selected_lines' = {}
    /\ UNCHANGED <<image_paths, current_index, current_texture, saved_config,
                   dragging_line, batch_vars, overflow_checks, split_vars, update_vars>>
    /\ draw_thumbnails

\* if let Some(line) = lines.get_mut(index) { *line = clamp(*line + delta) }
\* for every selected index of the kind.
nudged(lines, indices, delta) ==
    [k \in 1..Len(lines) |->
        IF (k - 1) \in indices THEN Clamp(lines[k] + delta) ELSE lines[k]]

\* An arrow key pressed without ctrl, with a selection: up and down move
\* the selected horizontal lines, left and right the vertical ones.
nudge(line_type, delta) ==
    /\ Event
    /\ selected_lines # {}
    /\ StoreEdited(WithLinesInPlace(current_config, line_type,
          nudged(LinesOf(current_config, line_type), SelectedOf(line_type),
                 delta)))
    /\ UNCHANGED <<image_paths, current_index, current_texture, saved_config,
                   selected_lines, dragging_line, batch_vars, overflow_checks, split_vars, update_vars>>
    /\ draw_thumbnails

\* interact_pointer_pos along the dragged axis, relative to the image
\* rectangle: within it, or one step beyond either edge.
Pointer == (0 - Step)..(Den + Step)

\* The drag update with the lines of the dragged kind sorted after it.
drag_update_sorted(line, pointer) ==
    LET c == current_config
        lines == LinesOf(c, line[1])
        moved == IF line[2] < Len(lines)
                 THEN WithLinesInPlace(c, line[1],
                          sort_by([lines EXCEPT
                                      ![line[2] + 1] = Clamp(pointer)]))
                 ELSE c
    IN  [k \in DOMAIN config_overrides \cup {current_index} |->
            IF k = current_index THEN moved ELSE config_overrides[k]]

\* config_overrides.entry(current_index).or_insert_with(|| config.clone()),
\* then, if line_idx < len, lines[line_idx] = new_pos, in place, with
\* new_pos = ((pointer - rect.min) / rect.size).max(0.0).min(1.0).
drag_update(line, pointer) ==
    LET c == current_config
        lines == LinesOf(c, line[1])
        new_pos == Clamp(pointer)
        moved == IF line[2] < Len(lines)
                 THEN WithLinesInPlace(c, line[1],
                          [lines EXCEPT ![line[2] + 1] = new_pos])
                 ELSE c
    IN  [k \in DOMAIN config_overrides \cup {current_index} |->
            IF k = current_index THEN moved ELSE config_overrides[k]]

\* A drag starts within reach of a line of the displayed configuration:
\* the line is taken, selected, and the frame's drag update makes the
\* override, with the line at the pointer, where it already is.
drag_started(line, shift) ==
    /\ Event
    /\ MouseFree
    /\ CanvasShown
    /\ line[2] < Len(LinesOf(current_config, line[1]))
    /\ dragging_line' = Some(line)
    /\ selected_lines' =
          IF line \in selected_lines THEN selected_lines
          ELSE IF shift THEN selected_lines \cup {line} ELSE {line}
    /\ config_overrides' =
          drag_update(line, LinesOf(current_config, line[1])[line[2] + 1])
    /\ UNCHANGED <<image_paths, current_index, current_texture, config,
                   saved_config, batch_vars, overflow_checks, split_vars, update_vars>>
    /\ draw_thumbnails

\* The pointer moves with a line held.
drag_moved(new_pos) ==
    /\ Event
    /\ dragging_line # None
    /\ CanvasShown
    /\ config_overrides' = drag_update(dragging_line[1], new_pos)
    /\ UNCHANGED <<image_paths, current_index, current_texture, config,
                   saved_config, selected_lines, dragging_line, batch_vars,
                   overflow_checks, split_vars, update_vars>>
    /\ draw_thumbnails

\* The button is released: the frame's drag update, then the lines of the
\* dragged kind are sorted, the count re-derived, the drag and the
\* selection dropped.
drag_stopped(new_pos) ==
    /\ Event
    /\ dragging_line # None
    /\ CanvasShown
    /\ LET t == dragging_line[1][1]
           moved == drag_update(dragging_line[1], new_pos)
       IN  config_overrides' =
              [moved EXCEPT ![current_index] =
                  WithLines(@, t, sort_by(LinesOf(@, t)))]
    /\ dragging_line' = None
    /\ selected_lines' = {}
    /\ UNCHANGED <<image_paths, current_index, current_texture, config,
                   saved_config, batch_vars, overflow_checks, split_vars, update_vars>>
    /\ draw_thumbnails

\* start_batch_process with a folder picked: the clones are moved into a
\* new thread, which calls batch_process, whatever the threads spawned
\* before are doing.  The batch variables follow the thread spawned last.
start_batch_process ==
    /\ Event
    /\ image_paths # <<>>
    /\ global_config' = GlobalForBatch
    /\ overrides' = config_overrides
    /\ paths' = image_paths
    /\ b_pc' = "called"
    /\ processed' = 0
    /\ failed' = 0
    /\ result' = None
    /\ w_pc' = [i \in 0..(Len(image_paths) - 1) |-> "start"]
    /\ w_config' = [i \in 0..(Len(image_paths) - 1) |-> None]
    /\ w_cell' = [i \in 0..(Len(image_paths) - 1) |-> 0]
    /\ w_result' = [i \in 0..(Len(image_paths) - 1) |-> "None"]
    /\ calls' = <<>>
    /\ out_files' = {}
    /\ dir_status' = "unknown"
    /\ UNCHANGED <<image_paths, current_index, current_texture, config,
                   saved_config, config_overrides, selected_lines,
                   dragging_line, overflow_checks, split_vars, update_vars>>
    /\ draw_thumbnails

\* ------------------------------------------------------------ update check
UpdateStatus == {"Idle", "Checking", "NewVersion", "UpToDate", "Error"}

\* A check button offered in every status.
CheckOffered_always == TRUE

\* The about window offers a button calling check_for_updates in the
\* statuses Idle, UpToDate and Error; Checking shows a spinner and
\* NewVersion the download button.
CheckOffered == update_status \in {"Idle", "UpToDate", "Error"}

\* check_for_updates, from a click in the about window: the status is set
\* to Checking, then the worker thread is spawned.
check_for_updates ==
    /\ Event
    /\ CheckOffered
    /\ update_status' = "Checking"
    /\ checks_in_flight' = checks_in_flight + 1
    /\ UNCHANGED <<image_paths, current_index, current_texture, config,
                   saved_config, config_overrides, selected_lines,
                   dragging_line, batch_vars, overflow_checks, split_vars>>
    /\ draw_thumbnails

\* The worker thread ends: the request's outcome is stored under the lock,
\* a newer release, none (or no release at all), or an error.
update_worker ==
    /\ checks_in_flight > 0
    /\ \E outcome \in {"NewVersion", "UpToDate", "Error"} :
          update_status' = outcome
    /\ checks_in_flight' = checks_in_flight - 1
    /\ UNCHANGED <<app_vars, batch_vars, overflow_checks, split_vars>>

UserEvent ==
    \/ \E picked \in SeqsUpTo(Paths, MaxImages) \ {<<>>} : pick_files(picked)
    \/ show_previous_image
    \/ show_next_image
    \/ \E idx \in 0..(MaxImages - 1) : select_image(idx)
    \/ clear_images
    \/ save_config
    \/ \E rows \in 1..MaxRows : set_rows(rows)
    \/ \E cols \in 1..MaxRows : set_cols(cols)
    \/ \E t \in LineType, pos \in Pos : add_line(t, pos)
    \/ delete_selected
    \/ \E t \in LineType, d \in {Step, -Step, ShiftStep, -ShiftStep} :
          nudge(t, d)
    \/ \E t \in LineType, i \in 0..(MaxLines - 1), shift \in BOOLEAN :
          drag_started(<<t, i>>, shift)
    \/ \E pos \in Pointer : drag_moved(pos)
    \/ \E pos \in Pointer : drag_stopped(pos)
    \/ start_batch_process
    \/ check_for_updates

\* ------------------------------------------------------------------- Init
\* BatchImageSplitterApp::new
AppInit ==
    /\ update_status = "Idle"
    /\ checks_in_flight = 0
    /\ image_paths = <<>>
    /\ thumbnails = <<>>
    /\ current_index = 0
    /\ current_texture = None
    /\ config = SplitConfig_new(1, 1)
    /\ saved_config = None
    /\ config_overrides = <<>>
    /\ selected_lines = {}
    /\ dragging_line = None
    /\ events = 0

\* No batch thread has been started.
NoBatch ==
    /\ b_pc = "idle"
    /\ paths = <<>>
    /\ global_config = SplitConfig_new(1, 1)
    /\ overrides = <<>>
    /\ processed = 0
    /\ failed = 0
    /\ result = None
    /\ w_pc = <<>>
    /\ w_config = <<>>
    /\ w_cell = <<>>
    /\ w_result = <<>>
    /\ calls = <<>>
    /\ out_files = {}
    /\ dir_status = "unknown"

\* No call of split_image on its own is followed.
NoSplit ==
    /\ s_img = ImageOf(1)
    /\ s_config = SplitConfig_new(1, 1)
    /\ s_result = None
    /\ s_pc = "given"

\* The locals of a batch_process call on entry, for the arguments given.
BatchCalled(ps, global, ovr) ==
    /\ b_pc = "called"
    /\ paths = ps
    /\ global_config = global
    /\ overrides = ovr
    /\ processed = 0
    /\ failed = 0
    /\ result = None
    /\ w_pc = [i \in 0..(Len(ps) - 1) |-> "start"]
    /\ w_config = [i \in 0..(Len(ps) - 1) |-> None]
    /\ w_cell = [i \in 0..(Len(ps) - 1) |-> 0]
    /\ w_result = [i \in 0..(Len(ps) - 1) |-> "None"]
    /\ calls = <<>>
    /\ out_files = {}
    /\ dir_status = "unknown"

\* ---- batch_process on its own: the arguments are drawn from bounded sets.
\* Line lists given to a batch: none, one line, two lines on one pixel, two
\* lines out of order.
BatchLines == {<<>>, <<Den \div 2>>, <<Den \div 2, Den \div 2>>, <<Den, 0>>}

Configs ==
    {[rows |-> Len(h) + 1, cols |-> 1, h_lines |-> h, v_lines |-> <<>>] :
        h \in BatchLines}
    \cup {[rows |-> 1, cols |-> 2, h_lines |-> <<>>, v_lines |-> <<Den \div 2>>]}

BatchInit ==
    /\ AppInit
    /\ NoSplit
    /\ overflow_checks \in BOOLEAN
    /\ \E ps \in SeqsUpTo(Paths, MaxImages) :
       \E global \in Configs :
       \E keys \in {k \in SUBSET (0..(Len(ps) - 1)) : Cardinality(k) <= 1} :
       \E ovr \in [keys -> Configs] :
          BatchCalled(ps, global, ovr)

BatchNext == BatchStep

SpecBatch == BatchInit /\ [][BatchNext]_vars

\* ---- split_image on its own: an image and a configuration are drawn from
\* bounded sets, the rows and cols fields independently of the lines.
SplitInit ==
    /\ AppInit
    /\ NoBatch
    /\ overflow_checks \in BOOLEAN
    /\ s_img \in [width : 1..MaxDim, height : 1..MaxDim]
    /\ s_config \in [rows : 0..MaxRows, cols : 0..MaxRows,
                      h_lines : SeqsUpTo(Pos, MaxLines),
                      v_lines : SeqsUpTo(Pos, MaxLines)]
    /\ s_result = None
    /\ s_pc = "given"

call_split_image ==
    /\ s_pc \in {"given", "made"}
    /\ s_result = None
    /\ s_result' = Some(split_image(s_img, s_config, overflow_checks))
    /\ UNCHANGED <<app_vars, batch_vars, overflow_checks, s_img, s_config,
                   s_pc, update_vars>>

SplitNext == call_split_image

SpecSplit == SplitInit /\ [][SplitNext]_vars

\* ---- SplitConfig::new on its own: rows and cols are drawn from a bounded
\* set, the struct literal of new() holds them, and the configuration new()
\* returns is then given to split_image.
NewInit ==
    /\ AppInit
    /\ NoBatch
    /\ overflow_checks \in BOOLEAN
    /\ s_img \in [width : 1..MaxDim, height : 1..MaxDim]
    /\ s_config \in [rows : 0..MaxRows, cols : 0..MaxRows,
                      h_lines : {<<>>}, v_lines : {<<>>}]
    /\ s_result = None
    /\ s_pc = "literal"

\* config.reset_to_default(); config
call_new ==
    /\ s_pc = "literal"
    /\ s_config' = SplitConfig_new(s_config.rows, s_config.cols)
    /\ s_pc' = "made"
    /\ UNCHANGED <<app_vars, batch_vars, overflow_checks, s_img, s_result,
                   update_vars>>

NewNext == call_new \/ call_split_image

SpecNew == NewInit /\ [][NewNext]_vars

\* ---- the application: the state after new(), no batch thread yet.
Init ==
    /\ AppInit
    /\ overflow_checks \in BOOLEAN
    /\ NoBatch
    /\ NoSplit

Next == UserEvent \/ BatchStep \/ update_worker

Spec == Init /\ [][Next]_vars

\* ---- the application some way into a session, no batch thread yet.  Each
\* field holds a value the events above produce from new():
\*   image_paths      pick_files(<<1>>) or pick_files(<<1, 2>>), which loads
\*                    the first image;
\*   config           untouched, or add_line(Horizontal, Step) and
\*                    add_line(Horizontal, 0): two lines, sorted, the one
\*                    added last, at index 0, selected;
\*   saved_config     none, or set_cols(2), save_config, set_cols(1);
\*   config_overrides none, or, between the last two, drag_started and
\*                    drag_stopped of the vertical line over image 0.
\* The lines are added to the shared configuration while an image without
\* an override is shown (the second of two, before Ctrl+Left or before
\* clear and pick_files again): neither navigation nor clear touches
\* selected_lines or config_overrides.
AddedConfig ==
    [rows |-> 3, cols |-> 1, h_lines |-> <<0, Step>>, v_lines |-> <<>>]

SessionInit ==
    /\ image_paths \in {<<1>>, <<1, 2>>}
    /\ current_index = 0
    /\ current_texture = Some(1)
    /\ \/ config = SplitConfig_new(1, 1) /\ selected_lines = {}
       \/ config = AddedConfig /\ selected_lines = {<<Horizontal, 0>>}
    /\ saved_config \in {None, Some(SplitConfig_new(1, 2))}
    /\ config_overrides \in {<<>>, [i \in {0} |-> SplitConfig_new(1, 2)]}
    /\ dragging_line = None
    /\ thumbnails = [idx \in 0..(Len(image_paths) - 1) |-> image_paths[idx + 1]]
    /\ events = 0
    /\ update_status = "Idle"
    /\ checks_in_flight = 0
    /\ overflow_checks \in BOOLEAN
    /\ NoBatch
    /\ NoSplit

SpecSession == SessionInit /\ [][Next]_vars

\* ---- the application with a line held: after SessionInit's pick_files and
\* its two add_line, drag_started of the selected horizontal
\* line made image 0's override, and the pointer rests on the line or
\* drag_moved took it to the lower edge.
DragInit ==
    /\ image_paths \in {<<1>>, <<1, 2>>}
    /\ current_index = 0
    /\ current_texture = Some(1)
    /\ config = AddedConfig
    /\ selected_lines = {<<Horizontal, 0>>}
    /\ saved_config = None
    /\ \E held \in {0, Den} :
          config_overrides =
             [i \in {0} |-> [AddedConfig EXCEPT !.h_lines = <<held, Step>>]]
    /\ dragging_line = Some(<<Horizontal, 0>>)
    /\ thumbnails = [idx \in 0..(Len(image_paths) - 1) |-> image_paths[idx + 1]]
    /\ events = 0
    /\ update_status = "Idle"
    /\ checks_in_flight = 0
    /\ overflow_checks \in BOOLEAN
    /\ NoBatch
    /\ NoSplit

SpecDrag == DragInit /\ [][Next]_vars

\* ------------------------------------------------------------ batch claims
\* The images whose closure has incremented a counter.
Counted == {i \in Images : w_pc[i] \in {"report", "done"}}

\* The whole pipeline of image i succeeded: it was decoded and split, and
\* every cell of its grid was saved.
PipelineSucceeded(i) ==
    /\ w_config[i] # None
    /\ \A cell \in 0..(NumCells(w_config[i][1]) - 1) :
          OutputFile(i, cell, TRUE) \in out_files

\* C1: the counters hold one increment per counted image, under the
\* counter its pipeline's outcome names, and the pair batch_process returns
\* is (number of images whose pipeline succeeded, number of images with a
\* failed stage), which add up to the number of images.
C1_ExactCounts ==
    /\ processed = Cardinality({i \in Counted : PipelineSucceeded(i)})
    /\ failed = Cardinality({i \in Counted : ~PipelineSucceeded(i)})
    /\ b_pc = "returned" =>
          /\ result = Some(<<Cardinality({i \in Images : PipelineSucceeded(i)}),
                             Cardinality({i \in Images : ~PipelineSucceeded(i)})>>)
          /\ result[1][1] + result[1][2] = total

C1_Witness ==
    /\ b_pc = "returned"
    /\ total = 2
    /\ result = Some(<<1, 1>>)
    /\ \E i \in Images : NumCells(w_config[i][1]) > 1 /\ PipelineSucceeded(i)

\* The invocations of the progress callback that name image i.
CallsFor(i) == {k \in 1..Len(calls) : calls[k][1] = i + 1}

\* C2: the progress callback is invoked once for an image, when the image
\* has been counted, and never otherwise, always with the number of images
\* as its second argument; a run that returns has invoked it once for each
\* of its images, so as many times as there are images.
C2_ProgressOncePerImage ==
    /\ \A k \in 1..Len(calls) : calls[k][2] = total /\ calls[k][1] \in 1..total
    /\ \A i \in Images :
          Cardinality(CallsFor(i)) = (IF w_pc[i] = "done" THEN 1 ELSE 0)
    /\ \A i \in Images : w_pc[i] = "done" => i \in Counted
    /\ Len(calls) <= processed + failed
    /\ b_pc = "returned" => Len(calls) = total

C2_Witness ==
    /\ b_pc = "returned"
    /\ total = 2
    /\ Len(calls) = 2
    /\ processed = 1
    /\ failed = 1

\* C3: the k-th invocation of the progress callback reports k completed
\* images.
C3_CompletedCountInOrder ==
    \A k \in 1..Len(calls) : calls[k][1] = k

\* C4: when the run is over, every image has been attempted, and every
\* image with a failed stage (decode, crop, encode, write) has been counted
\* under failed and only there.
C4_FailureIsolation ==
    b_pc \in {"returned", "panicked"} =>
       /\ \A i \in Images : w_pc[i] = "done"
       /\ failed = Cardinality({i \in Images : ~PipelineSucceeded(i)})
       /\ processed = Cardinality({i \in Images : PipelineSucceeded(i)})

\* C5: until create_dir_all has succeeded nothing else is done, and when
\* it fails batch_process returns the error: no image is opened, no file
\* written, no counter incremented, no progress reported.
C5_DirFailureIsFatal ==
    dir_status # "created" =>
       /\ dir_status = "failed" => b_pc = "error"
       /\ \A i \in Images : w_pc[i] = "start" /\ w_config[i] = None
       /\ out_files = {}
       /\ processed = 0
       /\ failed = 0
       /\ calls = <<>>
       /\ result = None

C5_Witness ==
    /\ dir_status = "failed"
    /\ b_pc = "error"
    /\ total = 2

\* C6: a run whose pool has started can go no further only once
\* batch_process has returned, with every image handled and the counters
\* read after that.
C6_RunReturns ==
    (b_pc \in {"running", "returned", "panicked"} /\ ~ENABLED BatchStep) =>
       /\ b_pc = "returned"
       /\ \A i \in Images : w_pc[i] = "done"
       /\ result = Some(<<processed, failed>>)

\* The configuration batch_process is to use for image i.
Effective(i) == IF i \in DOMAIN overrides THEN overrides[i] ELSE global_config

\* The files written for image i.
FilesBy(i) == {f \in out_files : f.by = i}

\* C7: image i is partitioned with overrides[i] when there is one and with
\* the global configuration otherwise: the configuration its closure holds
\* is that one, its files lie in that configuration's grid, and when it
\* succeeds they are as many as that grid has cells.
C7_OverridePrecedence ==
    \A i \in Images :
       w_config[i] # None =>
          /\ w_config[i] = Some(Effective(i))
          /\ \A f \in FilesBy(i) :
                /\ f.row \in 1..actual_rows(Effective(i))
                /\ f.col \in 1..actual_cols(Effective(i))
          /\ w_result[i] = "Ok" =>
                Cardinality(FilesBy(i)) = NumCells(Effective(i))

C7_Witness ==
    /\ b_pc = "returned"
    /\ total = 2
    /\ DOMAIN overrides = {1}
    /\ overrides[1] # global_config
    /\ NumCells(overrides[1]) # NumCells(global_config)
    /\ w_result[0] = "Ok"
    /\ w_result[1] = "Ok"
    /\ Cardinality(FilesBy(0)) = NumCells(global_config)
    /\ Cardinality(FilesBy(1)) = NumCells(overrides[1])

\* ------------------------------------------------------ application claims
\* The batch thread has been started and batch_process has not ended.
InFlight == b_pc \in {"called", "running"}

\* C8: when a batch is started, the global configuration handed to it,
\* with which every image without an override is partitioned, is the
\* shared configuration as it stands at that moment.
C8_ExportUsesSharedConfig ==
    [][(~InFlight /\ b_pc' = "called") => global_config' = config]_vars

\* C9: a batch is started with copies of the image list, the overrides
\* and the global configuration; while it is in flight no step of the
\* application or of the batch changes its copies or the set of images
\* processed (the start of another batch has copies of its own, which the
\* batch variables then follow), and the configuration a closure
\* holds for its image is the one the copies give, whatever the
\* application's fields have become.
C9_SnapshotIsolation ==
    [][/\ start_batch_process =>
             /\ paths' = image_paths
             /\ overrides' = config_overrides
             /\ global_config' = GlobalForBatch
       /\ (InFlight /\ ~start_batch_process) =>
             /\ snapshot_vars' = snapshot_vars
             /\ DOMAIN w_pc' = Images
             /\ \A i \in Images :
                   w_config'[i] # None =>
                      w_config'[i] = Some(resolve(i, overrides, global_config))]_vars

\* A batch in flight whose first image was partitioned with the copies'
\* configuration, after an edit changed the configuration the application
\* resolves for that image.
C9_Witness ==
    /\ b_pc = "running"
    /\ w_pc[0] = "done"
    /\ w_config[0] = Some(resolve(0, overrides, global_config))
    /\ w_config[0] # Some(resolve(0, config_overrides, GlobalForBatch))

\* ------------------------------------------------------ split_image claims
\* C10: a split_image that returns gives Len(h_lines) + 1 rows of
\* Len(v_lines) + 1 cells each, whatever rows and cols hold, the cell at
\* [row][col] starting at the row's upper and the column's left boundary;
\* without lines it returns, and its one cell is the whole image.
C10_GridDimensions ==
    s_result # None =>
       /\ ~s_result[1].panicked =>
             /\ Len(s_result[1].parts) = Len(s_config.h_lines) + 1
             /\ \A row \in 1..Len(s_result[1].parts) :
                   /\ Len(s_result[1].parts[row]) = Len(s_config.v_lines) + 1
                   /\ \A col \in 1..Len(s_result[1].parts[row]) :
                         /\ s_result[1].parts[row][col].y =
                               Min(h_positions(s_img, s_config)[row], s_img.height)
                         /\ s_result[1].parts[row][col].x =
                               Min(v_positions(s_img, s_config)[col], s_img.width)
       /\ (s_config.h_lines = <<>> /\ s_config.v_lines = <<>>) =>
             /\ ~s_result[1].panicked
             /\ s_result[1].parts =
                   << <<[x |-> 0, y |-> 0, w |-> s_img.width, h |-> s_img.height]>> >>

\* A grid of 3 rows of 2 cells returned for a configuration whose fields
\* say 1 row and 3 columns.
C10_Witness ==
    /\ s_result # None
    /\ ~s_result[1].panicked
    /\ Len(s_config.h_lines) = 2
    /\ Len(s_config.v_lines) = 1
    /\ s_config.rows = 1
    /\ s_config.cols = 3
    /\ Len(s_result[1].parts) = 3
    /\ Len(s_result[1].parts[1]) = 2

\* Line positions strictly increasing, and in non-decreasing order.
StrictlyIncreasing(lines) ==
    \A k \in 1..(Len(lines) - 1) : lines[k] < lines[k + 1]

NonDecreasing(lines) ==
    \A k \in 1..(Len(lines) - 1) : lines[k] <= lines[k + 1]

\* The cells of a returned grid whose crop rectangle holds pixel (px, py).
CellsWith(parts, px, py) ==
    {rc \in {<<r, c>> : r \in 1..Len(parts), c \in 1..Len(parts[1])} :
        LET cell == parts[rc[1]][rc[2]]
        IN  /\ cell.x <= px /\ px < cell.x + cell.w
            /\ cell.y <= py /\ py < cell.y + cell.h}

\* C11: for a configuration whose lines are strictly increasing on each
\* axis, split_image returns, every cell lies within the image, and every
\* pixel of the image is in the crop rectangle of exactly one cell.
C11_ExactTiling ==
    (/\ s_result # None
     /\ StrictlyIncreasing(s_config.h_lines)
     /\ StrictlyIncreasing(s_config.v_lines)) =>
       /\ ~s_result[1].panicked
       /\ \A r \in 1..Len(s_result[1].parts) :
          \A c \in 1..Len(s_result[1].parts[r]) :
             /\ s_result[1].parts[r][c].x + s_result[1].parts[r][c].w <= s_img.width
             /\ s_result[1].parts[r][c].y + s_result[1].parts[r][c].h <= s_img.height
       /\ \A px \in 0..(s_img.width - 1), py \in 0..(s_img.height - 1) :
             Cardinality(CellsWith(s_result[1].parts, px, py)) = 1

\* A 3 x 2 grid returned for strictly increasing lines on the largest image.
C11_Witness ==
    /\ s_result # None
    /\ ~s_result[1].panicked
    /\ Len(s_config.h_lines) = 2
    /\ Len(s_config.v_lines) = 1
    /\ StrictlyIncreasing(s_config.h_lines)
    /\ s_img = [width |-> MaxDim, height |-> MaxDim]
    /\ Cardinality(CellsWith(s_result[1].parts, MaxDim - 1, MaxDim - 1)) = 1

\* A boundary sequence over a dimension: from 0 to dim, in order, in range.
InOrderWithin(positions, dim) ==
    /\ positions[1] = 0
    /\ positions[Len(positions)] = dim
    /\ NonDecreasing(positions)
    /\ \A k \in 1..Len(positions) : positions[k] \in 0..dim

\* C12: for line positions given in non-decreasing order, equal ones and
\* ones on the same pixel included, the boundaries split_image computes on
\* each axis start at 0, end at the dimension, never decrease and stay
\* within the dimension; the call returns.
C12_BoundariesInOrder ==
    s_result # None =>
       /\ NonDecreasing(s_config.h_lines) =>
             InOrderWithin(h_positions(s_img, s_config), s_img.height)
       /\ NonDecreasing(s_config.v_lines) =>
             InOrderWithin(v_positions(s_img, s_config), s_img.width)
       /\ (NonDecreasing(s_config.h_lines) /\ NonDecreasing(s_config.v_lines)) =>
             ~s_result[1].panicked

\* Two distinct positions that fall on the same pixel row, next to two
\* equal positions on the other axis.
C12_Witness ==
    /\ s_result # None
    /\ ~s_result[1].panicked
    /\ s_img.height = 1
    /\ s_config.h_lines = <<0, 1>>
    /\ h_positions(s_img, s_config) = <<0, 0, 0, 1>>
    /\ Len(s_config.v_lines) = 2
    /\ s_config.v_lines[1] = s_config.v_lines[2]

\* floor(dim * p / Den): the largest pixel count not above the product.
FloorOf(dim, p) ==
    CHOOSE q \in 0..(dim * Den) : q * Den <= dim * p /\ dim * p < (q + 1) * Den

\* C13: every interior boundary is the floor of dimension times position,
\* hPos[k] = floor(H * h_lines[k-1]) and vPos[k] = floor(W * v_lines[k-1]),
\* and a cell between boundaries in order is as wide as the distance of its
\* column's boundaries and as high as the distance of its row's.
C13_TruncatedBoundaries ==
    (s_result # None /\ ~s_result[1].panicked) =>
       /\ \A k \in 1..Len(s_config.h_lines) :
             h_positions(s_img, s_config)[k + 1] =
                FloorOf(s_img.height, s_config.h_lines[k])
       /\ \A k \in 1..Len(s_config.v_lines) :
             v_positions(s_img, s_config)[k + 1] =
                FloorOf(s_img.width, s_config.v_lines[k])
       /\ \A r \in 1..Len(s_result[1].parts) :
          \A c \in 1..Len(s_result[1].parts[r]) :
             LET hPos == <<0>> \o [k \in 1..Len(s_config.h_lines) |->
                            FloorOf(s_img.height, s_config.h_lines[k])]
                              \o <<s_img.height>>
                 vPos == <<0>> \o [k \in 1..Len(s_config.v_lines) |->
                            FloorOf(s_img.width, s_config.v_lines[k])]
                              \o <<s_img.width>>
             IN  /\ vPos[c] <= vPos[c + 1] =>
                       s_result[1].parts[r][c].w = vPos[c + 1] - vPos[c]
                 /\ hPos[r] <= hPos[r + 1] =>
                       s_result[1].parts[r][c].h = hPos[r + 1] - hPos[r]

\* One line at a half on an image 1 pixel wide and 1 high: the boundary is
\* pixel 0, where rounding gives 1, and the cells are 0 and 1 pixel high.
C13_Witness ==
    /\ s_result # None
    /\ ~s_result[1].panicked
    /\ s_img = [width |-> 1, height |-> 1]
    /\ Len(s_config.h_lines) = 1
    /\ 2 * s_config.h_lines[1] = Den
    /\ s_config.v_lines = <<>>
    /\ s_result[1].parts[1][1].h = 0
    /\ s_result[1].parts[2][1].h = 1
    /\ s_result[1].parts[1][1].w = 1

\* ------------------------------------------------- degenerate-line claims
\* Lines in order of which two neighbours fall on the same pixel.
SamePixel(dim, lines) ==
    \E k \in 1..(Len(lines) - 1) : Trunc(dim, lines[k]) = Trunc(dim, lines[k + 1])

Degenerate(img, c) ==
    /\ NonDecreasing(c.h_lines)
    /\ NonDecreasing(c.v_lines)
    /\ SamePixel(img.height, c.h_lines) \/ SamePixel(img.width, c.v_lines)

\* The 0-based row-major indices of the cells of no area.
EmptyCells(img, c) ==
    {cell \in 0..(NumCells(c) - 1) :
        LET part == Grid(img, c)[(cell \div actual_cols(c)) + 1]
                                [(cell % actual_cols(c)) + 1]
        IN  part.w = 0 \/ part.h = 0}

\* C14: an image whose configuration has two neighbouring lines on the
\* same pixel is split without a panic into its full grid, in which the
\* cells between them have no area; when the save of such a cell fails the
\* image is counted under failed, once, and not under processed, and the
\* counts of a run that returns are exact for the other images too.
C14_DegenerateLines ==
    \A i \in Images :
       Degenerate(ImageOf(paths[i + 1]), Effective(i)) =>
          /\ w_pc[i] # "panicked"
          /\ ~split_image(ImageOf(paths[i + 1]), Effective(i),
                          overflow_checks).panicked
          /\ Len(Grid(ImageOf(paths[i + 1]), Effective(i))) =
                Len(Effective(i).h_lines) + 1
          /\ EmptyCells(ImageOf(paths[i + 1]), Effective(i)) # {}
          /\ (/\ w_result[i] = "Err"
              /\ w_pc[i] \in {"report", "done"}) =>
                /\ i \in {j \in Counted : ~PipelineSucceeded(j)}
                /\ failed = Cardinality({j \in Counted : ~PipelineSucceeded(j)})
                /\ processed = Cardinality({j \in Counted : PipelineSucceeded(j)})
          /\ b_pc = "returned" =>
                result = Some(<<Cardinality({j \in Images : PipelineSucceeded(j)}),
                                Cardinality({j \in Images : ~PipelineSucceeded(j)})>>)

\* Two images: the first, with two lines on one pixel row, failed on the
\* save of a cell of no area; the second succeeded; the run returned (1, 1).
C14_Witness ==
    /\ b_pc = "returned"
    /\ total = 2
    /\ Degenerate(ImageOf(paths[1]), Effective(0))
    /\ w_result[0] = "Err"
    /\ w_config[0] # None
    /\ w_cell[0] \in EmptyCells(ImageOf(paths[1]), Effective(0))
    /\ w_result[1] = "Ok"
    /\ result = Some(<<1, 1>>)

\* C15: every configuration of a snapshot start_batch_process has taken
\* gives boundaries in non-decreasing order on both axes for its image, so
\* no subtraction of split_image overflows and no closure panics.
C15_SnapshotNeverUnderflows ==
    b_pc # "idle" =>
       \A i \in Images :
          /\ NonDecreasing(h_positions(ImageOf(paths[i + 1]), Effective(i)))
          /\ NonDecreasing(v_positions(ImageOf(paths[i + 1]), Effective(i)))
          /\ ~Underflows(ImageOf(paths[i + 1]), Effective(i))
          /\ w_pc[i] # "panicked"

\* ------------------------------------------------------ output-file claims
\* C16: the files written for an image whose pipeline returned Ok are
\* exactly one per cell of the grid of its resolved configuration, the
\* cell at 0-based (row, col) in the file named stem_{row+1}_{col+1}.jpg.
C16_OneFilePerCell ==
    \A i \in Images :
       w_result[i] = "Ok" =>
          FilesBy(i) =
             {[stem |-> base_name(paths[i + 1]), row |-> r, col |-> c,
               part |-> Grid(ImageOf(paths[i + 1]), Effective(i))[r][c],
               by |-> i, complete |-> TRUE] :
                 r \in 1..(Len(Effective(i).h_lines) + 1),
                 c \in 1..(Len(Effective(i).v_lines) + 1)}

\* An image counted as processed whose grid has 3 rows of 1 cell.
C16_Witness ==
    \E i \in Images :
       /\ w_result[i] = "Ok"
       /\ w_pc[i] = "done"
       /\ processed >= 1
       /\ Len(Effective(i).h_lines) = 2
       /\ Len(Effective(i).v_lines) = 0
       /\ Cardinality(FilesBy(i)) = 3

\* The path a file record was written to: output_dir joined with its name.
output_path(f) == <<f.stem, f.row, f.col>>

\* C17: two images of the list whose file stems differ never write to the
\* same output path, under any interleaving of their closures.
C17_DistinctStemsDistinctFiles ==
    \A f \in out_files, g \in out_files :
       (/\ f.by # g.by
        /\ file_stem(paths[f.by + 1]) # file_stem(paths[g.by + 1])) =>
          output_path(f) # output_path(g)

\* ------------------------------------------------------ SplitConfig claims
\* Lines i / n for i = 1 .. n - 1, exactly: strictly increasing, strictly
\* between 0 and 1.
EvenlySpaced(lines, n) ==
    /\ Len(lines) = n - 1
    /\ \A i \in 1..Len(lines) : lines[i] * n = i * Den
    /\ StrictlyIncreasing(lines)
    /\ \A i \in 1..Len(lines) : 0 < lines[i] /\ lines[i] < Den

\* C18: for rows, cols >= 1, SplitConfig::new(rows, cols) holds rows and
\* cols, rows - 1 horizontal lines, the i-th (from 1) at i / rows, and
\* cols - 1 vertical lines, the j-th at j / cols: on each axis strictly
\* increasing and strictly between 0 and 1.
C18_NewIsEvenlySpaced ==
    (s_pc = "made" /\ s_config.rows >= 1 /\ s_config.cols >= 1) =>
       /\ EvenlySpaced(s_config.h_lines, s_config.rows)
       /\ EvenlySpaced(s_config.v_lines, s_config.cols)

\* SplitConfig::new(3, 2): lines at 1/3 and 2/3, and at 1/2.
C18_Witness ==
    /\ s_pc = "made"
    /\ s_config.rows = 3
    /\ s_config.cols = 2
    /\ Len(s_config.h_lines) = 2
    /\ 3 * s_config.h_lines[1] = Den
    /\ 3 * s_config.h_lines[2] = 2 * Den
    /\ 2 * s_config.v_lines[1] = Den
    /\ s_result # None

\* --------------------------------------------------- configuration claims
\* The configurations the application holds: the shared one, the saved one
\* and the overrides.
HeldConfigs ==
    {config} \cup (IF saved_config = None THEN {} ELSE {saved_config[1]})
             \cup {config_overrides[k] : k \in DOMAIN config_overrides}

\* C19: after every UI operation the shared configuration, the saved one
\* and every override are well-formed: rows = Len(h_lines) + 1 and
\* cols = Len(v_lines) + 1, and is_valid() holds.
C19_WellFormed ==
    \A c \in HeldConfigs :
       /\ c.rows = Len(c.h_lines) + 1
       /\ c.cols = Len(c.v_lines) + 1
       /\ is_valid(c)

\* A line added to the override of image 0, next to a saved configuration
\* and a shared one that has lines.
C19_Witness ==
    /\ events >= 1
    /\ 0 \in DOMAIN config_overrides
    /\ config_overrides[0].rows = 2
    /\ config_overrides[0].cols = 2
    /\ selected_lines = {<<Horizontal, 0>>}
    /\ saved_config # None
    /\ config.rows = 3

\* C20: whenever no line is being dragged, the horizontal and the vertical
\* lines of the shared configuration and of every override are strictly
\* increasing.
C20_StrictlyIncreasingLines ==
    dragging_line = None =>
       \A c \in {config} \cup {config_overrides[k] : k \in DOMAIN config_overrides} :
          /\ StrictlyIncreasing(c.h_lines)
          /\ StrictlyIncreasing(c.v_lines)

\* The line positions the shared configuration and the overrides hold.
StoredPositions ==
    UNION {{c.h_lines[k] : k \in 1..Len(c.h_lines)}
              \cup {c.v_lines[k] : k \in 1..Len(c.v_lines)} :
           c \in {config} \cup {config_overrides[i] : i \in DOMAIN config_overrides}}

C22_OverridesNeverRemoved ==
    [][DOMAIN config_overrides \subseteq DOMAIN config_overrides']_vars

\* The image list cleared, and the override of image 0 still there.
C22_Witness ==
    /\ events >= 1
    /\ image_paths = <<>>
    /\ current_texture = None
    /\ 0 \in DOMAIN config_overrides

\* A step that edits lines: a line added, the selection deleted or nudged,
\* a line dragged.
LineEdit ==
    \/ \E t \in LineType, pos \in Pos : add_line(t, pos)
    \/ delete_selected
    \/ \E t \in LineType, d \in {Step, -Step, ShiftStep, -ShiftStep} : nudge(t, d)
    \/ \E t \in LineType, i \in 0..(MaxLines - 1), shift \in BOOLEAN :
          drag_started(<<t, i>>, shift)
    \/ \E pos \in Pointer : drag_moved(pos)
    \/ \E pos \in Pointer : drag_stopped(pos)

\* C23: after any edit of lines made while image i is the current image,
\* config_overrides has an entry for i.
C23_EditCreatesOverride ==
    [][LineEdit => current_index \in DOMAIN config_overrides']_vars

\* C24: every key of config_overrides is an index of the image list,
\* key < Len(image_paths), in every state.
C24_OverrideKeysInRange ==
    \A k \in DOMAIN config_overrides : k < Len(image_paths)

\* The edits that add, delete and nudge make to the configuration shown.
ShownEdit ==
    \/ \E t \in LineType, pos \in Pos : add_line(t, pos)
    \/ delete_selected
    \/ \E t \in LineType, d \in {Step, -Step, ShiftStep, -ShiftStep} :
          nudge(t, d)

\* The edits of a drag, which always go to the current image's override.
DragEdit ==
    \/ \E t \in LineType, i \in 0..(MaxLines - 1), shift \in BOOLEAN :
          drag_started(<<t, i>>, shift)
    \/ \E pos \in Pointer : drag_moved(pos)
    \/ \E pos \in Pointer : drag_stopped(pos)

\* An edit of the shared configuration, and an edit of an override.
SharedEdit ==
    \/ ShownEdit /\ ~HasOverride(current_index)
    \/ \E rows \in 1..MaxRows : set_rows(rows)
    \/ \E cols \in 1..MaxRows : set_cols(cols)

OverrideEdit ==
    \/ ShownEdit /\ HasOverride(current_index)
    \/ DragEdit

\* C25: an edit of the shared configuration leaves every override as it
\* was and is what every image without an override resolves to; an edit of
\* the current image's override leaves the shared configuration and every
\* other override as they were.
C25_SharedAndOverridesIsolated ==
    [][/\ SharedEdit =>
            /\ config_overrides' = config_overrides
            /\ \A i \in 0..(MaxImages - 1) :
                  ~(i \in DOMAIN config_overrides') =>
                     resolve(i, config_overrides', config') = config'
       /\ OverrideEdit =>
            /\ config' = config
            /\ \A k \in DOMAIN config_overrides \ {current_index} :
                  /\ k \in DOMAIN config_overrides'
                  /\ config_overrides'[k] = config_overrides[k]]_vars

C25_Witness ==
    /\ events = 1
    /\ image_paths = <<1, 2>>
    /\ config = SplitConfig_new(3, 1)
    /\ 0 \in DOMAIN config_overrides
    /\ config_overrides[0] = SplitConfig_new(1, 2)

\* The rows or the cols field of the panel is changed.
CountEdit ==
    \/ \E rows \in 1..MaxRows : set_rows(rows)
    \/ \E cols \in 1..MaxRows : set_cols(cols)

\* reset_to_default on c: both sequences are the even layout of c's rows
\* and cols, the counts are c's, and a second reset changes nothing.
ResetsEvenly(c) ==
    LET r == reset_to_default(c)
    IN  /\ r.rows = c.rows
        /\ r.cols = c.cols
        /\ EvenlySpaced(r.h_lines, c.rows)
        /\ EvenlySpaced(r.v_lines, c.cols)
        /\ reset_to_default(r) = r

\* C26: reset_to_default replaces h_lines and v_lines by the even layout of
\* the current rows and cols whatever the lines were, keeps rows and cols,
\* and is idempotent; a change of the row count in the panel leaves the
\* shared configuration with the even layout on both axes, the column count
\* kept, and a change of the column count likewise.
C26_ResetToDefault ==
    [][CountEdit =>
         /\ ResetsEvenly(config)
         /\ \/ /\ config'.rows # config.rows
               /\ config'.cols = config.cols
            \/ /\ config'.cols # config.cols
               /\ config'.rows = config.rows
         /\ config' = reset_to_default([config EXCEPT !.rows = config'.rows,
                                                       !.cols = config'.cols])
         /\ EvenlySpaced(config'.h_lines, config'.rows)
         /\ EvenlySpaced(config'.v_lines, config'.cols)
         /\ reset_to_default(config') = config']_vars

\* The column count was changed on the configuration with the custom
\* horizontal lines 0 and Step: they are gone.
C26_Witness ==
    /\ events = 1
    /\ selected_lines = {<<Horizontal, 0>>}
    /\ config = SplitConfig_new(3, 2)

\* The configuration shown for the current image after the step.
current_config_next == resolve(current_index', config_overrides', config')

\* How often x occurs in a sequence.
Occurrences(lines, x) == Cardinality({k \in 1..Len(lines) : lines[k] = x})

Other(t) == IF t = Horizontal THEN Vertical ELSE Horizontal

CountOf(c, t) == IF t = Horizontal THEN c.rows ELSE c.cols

\* C27: add_line(kind, pos) leaves the lines of that kind of the affected
\* configuration (the current image's override if any, else the shared one)
\* as the earlier positions and pos, each as often as before and pos once
\* more, in ascending order; the count of that kind is the new length + 1;
\* the lines and the count of the other kind are as they were.
C27_AddLineInsertsSorted ==
    [][\A t \in LineType, pos \in Pos :
         add_line(t, pos) =>
            LET old == LinesOf(current_config, t)
                new == LinesOf(current_config_next, t)
            IN  /\ HasOverride(current_index) =>
                      (config' = config /\ HasOverride(current_index)')
                /\ ~HasOverride(current_index) =>
                      config_overrides' = config_overrides
                /\ Len(new) = Len(old) + 1
                /\ \A x \in Pos :
                      Occurrences(new, x) =
                         Occurrences(old, x) + (IF x = pos THEN 1 ELSE 0)
                /\ NonDecreasing(new)
                /\ CountOf(current_config_next, t) = Len(new) + 1
                /\ LinesOf(current_config_next, Other(t)) =
                      LinesOf(current_config, Other(t))
                /\ CountOf(current_config_next, Other(t)) =
                      CountOf(current_config, Other(t))]_vars

\* A vertical line was added at Step, before the line at Den / 2, to the
\* override of image 0.
C27_Witness ==
    /\ events = 1
    /\ current_index = 0
    /\ 0 \in DOMAIN config_overrides
    /\ config_overrides[0] = [rows |-> 1, cols |-> 3, h_lines |-> <<>>,
                              v_lines |-> <<Step, Den \div 2>>]
    /\ selected_lines = {<<Vertical, 0>>}

\* C28: after add_line(kind, pos) the selection is the single entry
\* (kind, idx) with the line of that kind at idx equal to pos, and no line
\* before idx equal to pos; the earlier selection is gone.
C28_AddLineSelectsInserted ==
    [][\A t \in LineType, pos \in Pos :
         add_line(t, pos) =>
            \E idx \in 0..(Len(LinesOf(current_config_next, t)) - 1) :
               /\ selected_lines' = {<<t, idx>>}
               /\ LinesOf(current_config_next, t)[idx + 1] = pos
               /\ \A j \in 1..idx :
                     LinesOf(current_config_next, t)[j] # pos]_vars

\* Two horizontal lines were added to the shared configuration, the second
\* above the first: it is selected, at index 1.
C28_Witness ==
    /\ events = 2
    /\ ~HasOverride(current_index)
    /\ config.h_lines = <<Step, Den \div 2>>
    /\ config.rows = 3
    /\ selected_lines = {<<Horizontal, 1>>}

\* The lines of a sequence that are not at the 0-based indices sel, in
\* the order they had.
KeptLines(lines, sel) ==
    LET keep == {k \in 1..Len(lines) : ~((k - 1) \in sel)}
    IN  [j \in 1..Cardinality(keep) |->
            lines[CHOOSE k \in keep :
                     Cardinality({m \in keep : m < k}) = j - 1]]

\* C29: deleting the selection leaves, of each kind, exactly the lines of
\* the affected configuration that were not at a selected index, in the
\* order they had; rows and cols are the new lengths + 1; the selection is
\* empty; the configuration not affected is as it was.
C29_DeleteRemovesSelected ==
    [][delete_selected =>
         /\ \A t \in LineType :
               /\ LinesOf(current_config_next, t) =
                     KeptLines(LinesOf(current_config, t), SelectedOf(t))
               /\ CountOf(current_config_next, t) =
                     Len(LinesOf(current_config_next, t)) + 1
         /\ selected_lines' = {}
         /\ HasOverride(current_index) => config' = config
         /\ ~HasOverride(current_index) =>
               config_overrides' = config_overrides]_vars

\* Both horizontal lines of image 0's override, selected with a shift
\* drag of the second, were deleted.
C29_Witness ==
    /\ events = 2
    /\ dragging_line = Some(<<Horizontal, 1>>)
    /\ config = AddedConfig
    /\ 0 \in DOMAIN config_overrides
    /\ config_overrides[0] = SplitConfig_new(1, 1)
    /\ selected_lines = {}

\* max(0.0).min(1.0) of a pointer position, case by case.
Within01(p) == IF p < 0 THEN 0 ELSE IF p > Den THEN Den ELSE p

\* C30: with line (kind, index) held, a pointer update sets the element at
\* that index of the current image's override to the pointer position
\* clamped to [0, 1] and nothing else: the other lines of the kind keep
\* value and index, the lines of the other kind, rows and cols are as
\* they were, and so are the shared configuration and every other
\* override; without an override before, the override is the shared
\* configuration with that one element set.
C30_DragMovesOneLineInPlace ==
    [][\A pointer \in Pointer :
         drag_moved(pointer) =>
            LET t == dragging_line[1][1]
                idx == dragging_line[1][2]
                before == IF HasOverride(current_index)
                          THEN config_overrides[current_index] ELSE config
                old == LinesOf(before, t)
            IN  /\ config' = config
                /\ DOMAIN config_overrides' =
                      DOMAIN config_overrides \cup {current_index}
                /\ \A k \in DOMAIN config_overrides \ {current_index} :
                      config_overrides'[k] = config_overrides[k]
                /\ LET after == config_overrides'[current_index]
                       new == LinesOf(after, t)
                   IN  /\ after.rows = before.rows
                       /\ after.cols = before.cols
                       /\ LinesOf(after, Other(t)) = LinesOf(before, Other(t))
                       /\ Len(new) = Len(old)
                       /\ \A k \in 1..Len(old) :
                             new[k] = IF k = idx + 1 THEN Within01(pointer)
                                      ELSE old[k]]_vars

\* The first horizontal line of the shared configuration was dragged
\* beyond the lower edge: image 0 has an override with it at 1, after the
\* second line, which is where it was.
C30_Witness ==
    /\ events = 2
    /\ dragging_line = Some(<<Horizontal, 0>>)
    /\ config = AddedConfig
    /\ current_index = 0
    /\ 0 \in DOMAIN config_overrides
    /\ config_overrides[0] =
          [AddedConfig EXCEPT !.h_lines = <<Den, Step>>]

\* The button is released over the canvas.
DragStop == \E pointer \in Pointer : drag_stopped(pointer)

\* C31: when the drag stops, no line is held any more and, in every
\* override, the one the drag modified included, the lines of the dragged
\* kind are in ascending order and the count of that kind is their number
\* + 1.
C31_DragEndsWithCommit ==
    [][DragStop =>
         /\ dragging_line' = None
         /\ \A k \in DOMAIN config_overrides' :
               LET t == dragging_line[1][1]
                   c == config_overrides'[k]
               IN  /\ NonDecreasing(LinesOf(c, t))
                   /\ CountOf(c, t) = Len(LinesOf(c, t)) + 1]_vars

\* The images whose pipeline has ended with an error.
Failed == {i \in Images : w_result[i] = "Err"}

\* The files of the first n cells of image i, in row-major order, saved
\* whole.
CellPrefix(i, n) == {OutputFile(i, cell, TRUE) : cell \in 0..(n - 1)}

\* Of a failed image, the files saved whole are those of the cells before
\* the one whose save failed (w_cell), and nothing else of it is on disk
\* but what the failed save itself may have left.
PrefixWritten ==
    \A i \in Failed :
       /\ {f \in FilesBy(i) : f.complete} = CellPrefix(i, w_cell[i])
       /\ \A f \in FilesBy(i) :
             ~f.complete => f = OutputFile(i, w_cell[i], FALSE)
       /\ w_pc[i] \in {"count", "report", "done"}

C33_SavedConfigIsGlobal ==
    [][/\ start_batch_process =>
            global_config' = IF saved_config = None THEN config
                             ELSE saved_config[1]
       /\ save_config => saved_config' = Some(config)
       /\ saved_config' # saved_config => save_config
       /\ SharedEdit => saved_config' = saved_config]_vars

\* A batch was started after the shared configuration was changed: it
\* holds the configuration saved before, not the shared one.
C33_Witness ==
    /\ b_pc # "idle"
    /\ saved_config = Some(SplitConfig_new(1, 2))
    /\ global_config = SplitConfig_new(1, 2)
    /\ config = SplitConfig_new(3, 1)

\* The thread of a batch is between its spawn and the end of
\* batch_process.
BatchInFlight == b_pc \in {"called", "running"}

\* C34: no batch is started while the thread of an earlier one is still
\* in flight.
C34_OneBatchInFlight ==
    [][start_batch_process => ~BatchInFlight]_vars

\* C35: current_index is a position of the image list when there is one,
\* and 0 when the list is empty.
C35_CurrentIndexValid ==
    IF image_paths = <<>> THEN current_index = 0
    ELSE current_index < Len(image_paths)

\* The second of two images is shown.
C35_Witness ==
    /\ events >= 1
    /\ Len(image_paths) = 2
    /\ current_index = 1
    /\ current_texture = Some(image_paths[2])

\* C36: the image on the canvas, when there is one, is the one at
\* image_paths[current_index].
C36_ShownImageIsCurrent ==
    current_texture # None =>
       /\ current_index < Len(image_paths)
       /\ current_texture = Some(image_paths[current_index + 1])

\* Line (kind, idx) exists in the configuration shown for the current
\* image.
LineExists(line) == line[2] < Len(LinesOf(current_config, line[1]))

\* C37: every selected line, and the line held in a drag, is a line of the
\* configuration shown for the current image.
C37_SelectionRefersToLines ==
    /\ \A line \in selected_lines : LineExists(line)
    /\ dragging_line # None => LineExists(dragging_line[1])

\* C38: a thumbnail kept for index i was made from the path now at
\* image_paths[i].
C38_ThumbnailsCoherent ==
    \A i \in DOMAIN thumbnails :
       /\ i < Len(image_paths)
       /\ thumbnails[i] = image_paths[i + 1]

\* The worker of a check has stored its outcome.
Outcome == {"NewVersion", "UpToDate", "Error"}

\* C39: at most one update check is in flight, and one is exactly while
\* the status is Checking; a check starts only from Idle, UpToDate or
\* Error and sets Checking; the status leaves Checking only by the
\* worker's store of NewVersion, UpToDate or Error; once left, Idle is
\* never the status again.
C39_UpdateCheckStateMachine ==
    [][/\ checks_in_flight' <= 1
       /\ (update_status' = "Checking") <=> (checks_in_flight' = 1)
       /\ update_status' \in UpdateStatus
       /\ check_for_updates =>
            /\ update_status \in {"Idle", "UpToDate", "Error"}
            /\ update_status' = "Checking"
       /\ (update_status = "Checking" /\ update_status' # "Checking") =>
            /\ update_worker
            /\ update_status' \in Outcome
       /\ update_status' = "Idle" => update_status = "Idle"]_vars

\* A second check, started after the first ended without a newer
\* release, has ended with an error.
C39_Witness ==
    /\ events = 2
    /\ update_status = "Error"
    /\ checks_in_flight = 0
    /\ image_paths = <<1>>
    /\ current_index = 0
    /\ config = SplitConfig_new(1, 1)
    /\ config_overrides = <<>>
    /\ saved_config = None

====
